---- MODULE Spec2Model ----
(***************************************************************************)
(* Model of siptools/mdcreator.py: the MetsSectionCreator buffers, the     *)
(* content-addressed metadata files written by write_md, and the           *)
(* line-delimited JSON reference index written by write_references and     *)
(* read back by read_md_references.                                        *)
(***************************************************************************)
EXTENDS Integers, Sequences, FiniteSets, TLC

VARIABLES
    md_elements,   \* self.md_elements: list of (metadata, filename, stream, directory, given_metadata_dict)
    references,    \* self.references: list of reference dicts
    index,         \* the reference files of the workspace: ref_file -> [exists, lines]
    tmp,           \* the '<ref_file>.tmp' files: ref_file -> [exists, lines]
    mdfiles,       \* the '*-amd.xml' files of the workspace: filename -> content
    dictfiles,     \* the '*-scraper.json' files of the workspace: filename -> dict
    result,        \* the last call made on the creator and how it ended
    md_log,        \* history: the write_md calls made so far, with what each returned
    flushed,       \* history: the references handed to write_references calls that returned
    ncalls,        \* history: number of add_reference / add_md / write_md / interrupted calls made
    procs          \* the processes that run write_md or write_references step by step

vars == <<md_elements, references, index, tmp, mdfiles, dictfiles, result,
          md_log, flushed, ncalls, procs>>

(***************************************************************************)
(* Bounds of the exploration.                                              *)
(***************************************************************************)
MaxRefs == 3      \* add_reference calls in a run
MaxMd == 2        \* add_md calls in a run
MaxMdCalls == 2   \* direct write_md calls in a run
MaxFails == 1     \* interrupted write() calls in a run
MaxAdds == 3      \* add_reference and add_md calls together in a run of Spec

(***************************************************************************)
(* Python values.  None is a stream index that is no index; a path is a    *)
(* text string, a byte string or None; a dict and an othermdtype that are  *)
(* None or empty are falsy.                                                *)
(***************************************************************************)
None == -1
NonePath == [t |-> "none", s |-> ""]
Text(s) == [t |-> "text", s |-> s]
Bytes(s) == [t |-> "bytes", s |-> s]
NoneDict == "None"
NoneType == <<>>

Range(s) == {s[i] : i \in DOMAIN s}

EmptyFn == [x \in {} |-> x]

TruthyStream(stream) == stream # None /\ stream # 0
TruthyPath(p) == p.t # "none" /\ p.s # ""
TruthyDict(d) == d # NoneDict /\ d # "{}"
TruthySeq(s) == s # <<>>

(***************************************************************************)
(* _parse_refs: a byte string is decoded, a text string is kept, anything  *)
(* else that is falsy (None) gives the empty string.                       *)
(***************************************************************************)
_parse_refs(ref) ==
    IF ref.t = "bytes" THEN ref.s
    ELSE IF ref.t = "text" THEN ref.s
    ELSE ""

(***************************************************************************)
(* _uniques_list: list(set(reference_list) | {reference}).  The order in   *)
(* which Python lists a set is fixed by the hashes of the running process; *)
(* ord is that order, a sequence holding every ID once.                    *)
(***************************************************************************)
_uniques_list_append(reference_list, reference, ord) ==
    Append(reference_list, reference)

_uniques_list(reference_list, reference, ord) ==
    LET set_list == Range(reference_list) \cup {reference}
    IN  SelectSeq(ord, LAMBDA x : x \in set_list)

(***************************************************************************)
(* JSON.  An in-memory dict of streams is a sequence of [key, ids] in      *)
(* insertion order, its keys are ints (from a reference) or strs (from a   *)
(* parsed line): IntKey(1) # StrKey(1).  json.dump writes an int key as    *)
(* its decimal string and writes every item of the dict; json.loads keeps, *)
(* for a key that occurs more than once in an object, the last value at    *)
(* the position of the first occurrence.  In a line of the file a stream   *)
(* key is the number whose decimal string it is.                           *)
(***************************************************************************)
IntKey(n) == [t |-> "int", v |-> n]
StrKey(n) == [t |-> "str", v |-> n]

json_dump_streams(streams) ==
    [i \in DOMAIN streams |-> [key |-> streams[i].key.v, ids |-> streams[i].ids]]

json_dump(path) ==
    [key |-> path.key,
     path_type |-> path.entry.path_type,
     streams |-> json_dump_streams(path.entry.streams),
     md_ids |-> path.entry.md_ids]

json_loads_streams(items) ==
    LET isFirst(i) == \A j \in 1..(i - 1) : items[j].key # items[i].key
        lastOf(k) == CHOOSE i \in DOMAIN items :
                        /\ items[i].key = k
                        /\ \A j \in DOMAIN items : items[j].key = k => j <= i
        firsts == SelectSeq([i \in DOMAIN items |-> i], isFirst)
    IN  [n \in DOMAIN firsts |->
            [key |-> StrKey(items[firsts[n]].key),
             ids |-> items[lastOf(items[firsts[n]].key)].ids]]

json_loads(line) ==
    [key |-> line.key,
     entry |-> [path_type |-> line.path_type,
                streams |-> json_loads_streams(line.streams),
                md_ids |-> line.md_ids]]

(***************************************************************************)
(* dict access on the in-memory streams of an entry.                       *)
(***************************************************************************)
HasKey(streams, k) == \E i \in DOMAIN streams : streams[i].key = k
GetKey(streams, k) == (CHOOSE i \in DOMAIN streams : streams[i].key = k)
SetKey(streams, k, ids) ==
    IF HasKey(streams, k)
    THEN [streams EXCEPT ![GetKey(streams, k)].ids = ids]
    ELSE Append(streams, [key |-> k, ids |-> ids])

AbsentFile == [exists |-> FALSE, lines |-> <<>>]

(***************************************************************************)
(* _get_path_from_reference_file: the entry of the first line that has the *)
(* key, None (here the empty sequence) when no line has it.                *)
(***************************************************************************)
_get_path_from_reference_file(file, ref_path) ==
    LET hits == SelectSeq(file.lines, LAMBDA line : json_loads(line).key = ref_path)
    IN  IF hits = <<>> THEN <<>> ELSE <<json_loads(hits[1]).entry>>

_setup_new_path(path_type) ==
    [path_type |-> path_type, streams |-> <<>>, md_ids |-> <<>>]

(***************************************************************************)
(* One round of the loop over self.references in write_references.  st is  *)
(* [paths, path_map, paths_updated]; paths is the list of one-key dicts,   *)
(* here [key, entry].                                                      *)
(***************************************************************************)
add_stream_id_append(entry, stream, md_id, ord) ==
    LET k == IntKey(stream)
        stream_ids == IF HasKey(entry.streams, k)
                      THEN Append(entry.streams[GetKey(entry.streams, k)].ids, md_id)
                      ELSE <<md_id>>
    IN  [entry EXCEPT !.streams = SetKey(entry.streams, k, stream_ids)]

add_stream_id(entry, stream, md_id, ord) ==
    LET k == IntKey(stream)
        stream_ids == IF HasKey(entry.streams, k)
                      THEN _uniques_list(entry.streams[GetKey(entry.streams, k)].ids,
                                         md_id, ord)
                      ELSE <<md_id>>
    IN  [entry EXCEPT !.streams = SetKey(entry.streams, k, stream_ids)]

add_md_id(entry, md_id, ord) ==
    [entry EXCEPT !.md_ids = _uniques_list(entry.md_ids, md_id, ord)]

has_stream(ref) == TruthyStream(ref.stream)

record_ref(entry, ref, ord) ==
    IF has_stream(ref)
    THEN add_stream_id(entry, ref.stream, ref.md_id, ord)
    ELSE add_md_id(entry, ref.md_id, ord)

new_path(st, ref_path, found, path_type) ==
    [paths |-> Append(st.paths,
                      [key |-> ref_path,
                       entry |-> IF found # <<>> THEN found[1]
                                 ELSE _setup_new_path(path_type)]),
     path_map |-> st.path_map @@ (ref_path :> Len(st.paths) + 1),
     paths_updated |-> IF found # <<>>
                       THEN st.paths_updated \cup {ref_path}
                       ELSE st.paths_updated]

lookup_path(st, file, ref) ==
    IF _parse_refs(ref.path) \in DOMAIN st.path_map
    THEN st
    ELSE new_path(st, _parse_refs(ref.path),
                  IF file.exists
                  THEN _get_path_from_reference_file(file, _parse_refs(ref.path))
                  ELSE <<>>,
                  ref.path_type)

update_path_type(st, n, ref, ord) ==
    [st EXCEPT !.paths[n].entry =
        [record_ref(st.paths[n].entry, ref, ord) EXCEPT !.path_type = ref.path_type]]

update_path(st, n, ref, ord) ==
    [st EXCEPT !.paths[n].entry = record_ref(st.paths[n].entry, ref, ord)]

found_path(st, ref, ord) ==
    update_path(st, st.path_map[_parse_refs(ref.path)], ref, ord)

ref_round(st, file, ref, ord) ==
    found_path(lookup_path(st, file, ref), ref, ord)

RECURSIVE ref_loop(_, _, _, _)
ref_loop(st, file, refs, ord) ==
    IF refs = <<>> THEN st
    ELSE ref_loop(ref_round(st, file, Head(refs), ord), file, Tail(refs), ord)

collect_paths(file, refs, ord) ==
    ref_loop([paths |-> <<>>, path_map |-> EmptyFn, paths_updated |-> {}],
             file, refs, ord)

(***************************************************************************)
(* The writing half of write_references.  The lines are written one after  *)
(* another; written is how many of them reach the file before the call     *)
(* ends, all of them when it returns, fewer when it is interrupted.        *)
(***************************************************************************)
copy_through_all(file, paths_updated) == file.lines

copy_through_nothing(file, paths_updated) == <<>>

copy_through(file, paths_updated) ==
    SelectSeq(file.lines, LAMBDA line : json_loads(line).key \notin paths_updated)

dump_lines(paths) == [i \in DOMAIN paths |-> json_dump(paths[i])]

Prefix(s, n) == SubSeq(s, 1, IF n < Len(s) THEN n ELSE Len(s))

append_to(file, lines, opened) ==
    IF opened THEN [exists |-> TRUE, lines |-> file.lines \o lines] ELSE file

uses_tmp(st) == st.paths_updated # {}

out_lines(st, file) ==
    IF uses_tmp(st)
    THEN copy_through(file, st.paths_updated) \o dump_lines(st.paths)
    ELSE dump_lines(st.paths)

write_lines(fs, st, written) ==
    LET out == Prefix(out_lines(st, fs.index), written)
    IN  IF uses_tmp(st)
        THEN [index |-> fs.index, tmp |-> append_to(fs.tmp, out, TRUE)]
        ELSE [index |-> append_to(fs.index, out, out # <<>>), tmp |-> fs.tmp]

rename_tmp_always(fs, returns) ==
    IF fs.tmp.exists
    THEN [index |-> [exists |-> TRUE, lines |-> fs.tmp.lines], tmp |-> AbsentFile]
    ELSE fs

rename_tmp(fs, returns) ==
    IF returns /\ fs.tmp.exists
    THEN [index |-> [exists |-> TRUE, lines |-> fs.tmp.lines], tmp |-> AbsentFile]
    ELSE fs

write_references(fs, refs, ord, written, returns) ==
    rename_tmp(write_lines(fs, collect_paths(fs.index, refs, ord), written), returns)

NumLines(fs, refs, ord) == Len(out_lines(collect_paths(fs.index, refs, ord), fs.index))

(***************************************************************************)
(* read_md_references: None (here the empty sequence) when the file does   *)
(* not exist, else the dict built by update() over the lines: a later line *)
(* replaces the entry of an earlier line with the same key.                *)
(***************************************************************************)
read_md_references(file) ==
    IF ~file.exists THEN <<>>
    ELSE LET keys == {json_loads(file.lines[i]).key : i \in DOMAIN file.lines}
             last(k) == CHOOSE i \in DOMAIN file.lines :
                           /\ json_loads(file.lines[i]).key = k
                           /\ \A j \in DOMAIN file.lines :
                                 json_loads(file.lines[j]).key = k => j <= i
         IN  <<[k \in keys |-> json_loads(file.lines[last(k)]).entry]>>

(***************************************************************************)
(* get_md_references.  refs_dict is what read_md_references returned; path *)
(* and directory are a text string or None; stream is None or a key, an    *)
(* int or a str.  The keys of a dict that was read from a file are text    *)
(* strings, and the keys of its streams are strs.  try_md_ids is the body  *)
(* of the try statement: the list md_ids, or the KeyError of a lookup that *)
(* misses.                                                                 *)
(***************************************************************************)
NoneKey == [t |-> "none", v |-> 0]

normpath(directory) ==
    CASE directory = "data/" -> "data"
      [] directory = "./data" -> "data"
      [] directory = "data/sub/.." -> "data"
      [] OTHER -> directory

InDict(refs_dict, key) == key.t = "text" /\ key.s \in DOMAIN refs_dict

Found(md_ids) == [error |-> "", md_ids |-> md_ids]
KeyError == [error |-> "KeyError", md_ids |-> <<>>]

RECURSIVE extend_md_ids(_, _, _)
extend_md_ids(md_ids, refs_dict, ref_paths) ==
    IF ref_paths = {} THEN md_ids
    ELSE LET ref_path == CHOOSE k \in ref_paths : TRUE
         IN  extend_md_ids(md_ids \o refs_dict[ref_path].md_ids, refs_dict,
                           ref_paths \ {ref_path})

all_md_ids_of_files(refs_dict) ==
    Found(extend_md_ids(<<>>, refs_dict,
                        {k \in DOMAIN refs_dict : refs_dict[k].path_type = "file"}))

all_md_ids(refs_dict) == Found(extend_md_ids(<<>>, refs_dict, DOMAIN refs_dict))

md_ids_of(refs_dict, key) ==
    IF InDict(refs_dict, key) THEN Found(refs_dict[key.s].md_ids) ELSE KeyError

RECURSIVE stream_md_ids(_, _, _)
stream_md_ids(md_ids, streams, stream) ==
    IF streams = <<>> THEN md_ids
    ELSE stream_md_ids(IF Head(streams).key = stream THEN Head(streams).ids ELSE md_ids,
                       Tail(streams), stream)

md_ids_of_stream(refs_dict, path, stream) ==
    IF InDict(refs_dict, path)
    THEN Found(stream_md_ids(<<>>, refs_dict[path.s].streams, stream))
    ELSE KeyError

try_md_ids(refs_dict, path, stream, directory) ==
    IF directory.t = "none" /\ path.t = "none" /\ stream = NoneKey
    THEN all_md_ids(refs_dict)
    ELSE IF TruthyPath(directory)
    THEN md_ids_of(refs_dict, [directory EXCEPT !.s = normpath(directory.s)])
    ELSE IF stream = NoneKey
    THEN md_ids_of(refs_dict, path)
    ELSE md_ids_of_stream(refs_dict, path, stream)

except_nothing(tried) ==
    IF tried.error = "KeyError"
    THEN [status |-> "raised", value |-> "KeyError", ids |-> {}]
    ELSE [status |-> "returned", value |-> "set", ids |-> Range(tried.md_ids)]

except_KeyError(tried) ==
    [status |-> "returned", value |-> "set",
     ids |-> IF tried.error = "KeyError" THEN {} ELSE Range(tried.md_ids)]

get_md_references(refs_dict, path, stream, directory) ==
    IF refs_dict = <<>>
    THEN [status |-> "returned", value |-> "None", ids |-> {}]
    ELSE except_KeyError(try_md_ids(refs_dict[1], path, stream, directory))

(***************************************************************************)
(* read_all_amd_references: the reference files of the six scripts are     *)
(* read in the order of the list; the entry of a path that is met for the  *)
(* first time is taken as it is, the entry of a path that is met again has *)
(* its md_ids extended and, stream by stream, its ID list extended or set. *)
(* files is the workspace: ref_file -> [exists, lines].                    *)
(***************************************************************************)
AmdRefFiles ==
    <<"import-object-md-references.json",
      "create-addml-md-references.json",
      "create-audiomd-md-references.json",
      "create-mix-md-references.json",
      "create-videomd-md-references.json",
      "premis-event-md-references.json">>

RECURSIVE extend_streams(_, _)
extend_streams(streams, new_streams) ==
    IF new_streams = <<>> THEN streams
    ELSE LET stream == Head(new_streams).key
         IN  extend_streams(
                 IF HasKey(streams, stream)
                 THEN SetKey(streams, stream,
                             streams[GetKey(streams, stream)].ids \o Head(new_streams).ids)
                 ELSE SetKey(streams, stream, Head(new_streams).ids),
                 Tail(new_streams))

extend_entry_replace(entry, new_entry) == new_entry

extend_entry(entry, new_entry) ==
    [entry EXCEPT !.md_ids = @ \o new_entry.md_ids,
                  !.streams = extend_streams(@, new_entry.streams)]

extend_references(collected, refs) ==
    [ref \in DOMAIN collected \cup DOMAIN refs |->
        IF ref \notin DOMAIN refs THEN collected[ref]
        ELSE IF ref \in DOMAIN collected THEN extend_entry(collected[ref], refs[ref])
        ELSE refs[ref]]

TruthyRefs(refs) == refs # <<>> /\ DOMAIN refs[1] # {}

RECURSIVE read_ref_files(_, _, _)
read_ref_files(collected, files, ref_files) ==
    IF ref_files = <<>> THEN collected
    ELSE read_ref_files(
             IF TruthyRefs(read_md_references(files[Head(ref_files)]))
             THEN extend_references(collected,
                                    read_md_references(files[Head(ref_files)])[1])
             ELSE collected,
             files, Tail(ref_files))

read_all_amd_references(files) == read_ref_files(EmptyFn, files, AmdRefFiles)

(***************************************************************************)
(* Metadata elements.  An element is the list of its nodes in document     *)
(* order, each with its tag, its depth and its attributes in the order     *)
(* they were given.                                                        *)
(***************************************************************************)
Node(tag, depth, attrs) == [tag |-> tag, depth |-> depth, attrs |-> attrs]

SampleData == <<Node("sampleData", 0, <<>>)>>
AttrOrder1 == <<Node("root", 0, <<>>), Node("sub", 1, <<"attribute1", "attribute2">>)>>
AttrOrder2 == <<Node("root", 0, <<>>), Node("sub", 1, <<"attribute2", "attribute1">>)>>
SameAttr1 == <<Node("root", 0, <<>>), Node("sub1", 1, <<"attribute">>), Node("sub2", 1, <<>>)>>
SameAttr2 == <<Node("root", 0, <<>>), Node("sub1", 1, <<>>), Node("sub2", 1, <<"attribute">>)>>

Elements == {SampleData, AttrOrder1, AttrOrder2, SameAttr1, SameAttr2}

(***************************************************************************)
(* The streams of a file as scrape_file gives them to create_mix: a list   *)
(* of dicts, here functions from the keys to the values.  NoneValue is     *)
(* None, Unav the string '(:unav)'.  A stream may lack the key byte_order. *)
(***************************************************************************)
NoneValue == "None"
Unav == "(:unav)"

TiffStream ==
    [mimetype |-> "image/tiff", stream_type |-> "image", index |-> 0, version |-> "6.0",
     compression |-> "no", byte_order |-> "little endian", width |-> "10",
     height |-> "20", colorspace |-> "rgb", bps_value |-> "8", bps_unit |-> "integer",
     samples_per_pixel |-> "3"]

JpegStream ==
    [mimetype |-> "image/jpeg", stream_type |-> "image", index |-> 0, version |-> "1.01",
     compression |-> "jpeg", width |-> "10", height |-> "20", colorspace |-> "rgb",
     bps_value |-> "8", bps_unit |-> "integer", samples_per_pixel |-> "3"]

TextStream ==
    [mimetype |-> "text/plain", stream_type |-> "text", index |-> 0, version |-> Unav,
     charset |-> "UTF-8"]

(***************************************************************************)
(* nisomix.mix.mix_mix and the elements create_mix puts into it: the MIX   *)
(* element of a stream, its values being attributes of the three parts.    *)
(***************************************************************************)
mix_mix(byte_order, stream_md) ==
    <<Node("mix", 0, <<>>),
      Node("BasicDigitalObjectInformation", 1,
           <<"byteOrder=" \o byte_order,
             "compressionScheme=" \o stream_md["compression"]>>),
      Node("BasicImageInformation", 1,
           <<"imageWidth=" \o stream_md["width"],
             "imageHeight=" \o stream_md["height"],
             "colorSpace=" \o stream_md["colorspace"]>>),
      Node("ImageAssessmentMetadata", 1,
           <<"bitsPerSampleValue=" \o stream_md["bps_value"],
             "bitsPerSampleUnit=" \o stream_md["bps_unit"],
             "samplesPerPixel=" \o stream_md["samples_per_pixel"]>>)>>

MixTiff == mix_mix(TiffStream["byte_order"], TiffStream)
MixJpeg == mix_mix(NoneValue, JpegStream)

(***************************************************************************)
(* generate_digest (siptools.utils): the hash of the canonical form of the *)
(* element, in which the attributes of a node are an unordered set.  The   *)
(* hash is taken to be free of collisions: every canonical form has its    *)
(* own value.  The value of SampleData is the one of test_create_techmdfile, *)
(* the other values stand for the hashes of the other elements.            *)
(***************************************************************************)
Canonical(metadata) ==
    [i \in DOMAIN metadata |->
        [tag |-> metadata[i].tag, depth |-> metadata[i].depth,
         attrs |-> Range(metadata[i].attrs)]]

HashTable ==
    {<<Canonical(SampleData), "455752263d67f67402b0dc9e7119e5b3">>,
     <<Canonical(AttrOrder1), "0a7d55be9d12a369a6a8da0fb517fba4">>,
     <<Canonical(SameAttr1), "8fa14cdd754f91cc6554c9e71929cce7">>,
     <<Canonical(SameAttr2), "c81e728d9d4c2f636f067f89cc14862c">>,
     <<Canonical(MixTiff), "eccbc87e4b5ce2fe28308fd9f2a7baf3">>,
     <<Canonical(MixJpeg), "a87ff679a2f3e71d9181a67b7542122c">>,
     <<Canonical(mix_mix(NoneValue, [JpegStream EXCEPT !["colorspace"] = Unav])),
       "e4da3b7fbbce2345d7772b0674a318d5">>}

generate_digest(metadata) ==
    (CHOOSE row \in HashTable : row[1] = Canonical(metadata))[2]

DigestValues == {row[2] : row \in HashTable}

(***************************************************************************)
(* encode_path (siptools.utils): percent-encoding of a path.  A path is    *)
(* given as the sequence of its pieces, a piece being "/", "%" or a run of *)
(* characters that need no encoding; the result is one string.             *)
(***************************************************************************)
quote(piece) ==
    IF piece = "/" THEN "%2F"
    ELSE IF piece = "%" THEN "%25"
    ELSE piece

RECURSIVE encode_path(_)
encode_path(path) ==
    IF path = <<>> THEN "" ELSE quote(Head(path)) \o encode_path(Tail(path))

Workspace == "workspace/"

(***************************************************************************)
(* write_md.                                                               *)
(***************************************************************************)
md_suffix_mdtype(mdtype, othermdtype) == mdtype

md_suffix(mdtype, othermdtype) ==
    IF TruthySeq(othermdtype) THEN othermdtype ELSE mdtype

md_filename_of_suffix(metadata, mdtype, othermdtype) ==
    Workspace \o encode_path(md_suffix(mdtype, othermdtype) \o <<"-amd.xml">>)

md_filename(metadata, mdtype, othermdtype) ==
    Workspace \o encode_path(<<generate_digest(metadata), "-">>
                             \o md_suffix(mdtype, othermdtype) \o <<"-amd.xml">>)

md_id_of_tag(metadata) == "_" \o metadata[1].tag

md_id_of(metadata) == "_" \o generate_digest(metadata)

amd_kind(section) == IF section = "digiprovmd" THEN "digiprovMD" ELSE "techMD"

serialize_mets(metadata, mdtype, mdtypeversion, othermdtype, section) ==
    [amd |-> amd_kind(section),
     ID |-> md_id_of(metadata),
     MDTYPE |-> mdtype,
     MDTYPEVERSION |-> mdtypeversion,
     OTHERMDTYPE |-> othermdtype,
     xmlData |-> metadata]

must_write_always(files, filename) == TRUE

must_write(files, filename) == filename \notin DOMAIN files

write_file(files, filename, content) ==
    [f \in DOMAIN files \cup {filename} |-> IF f = filename THEN content ELSE files[f]]

write_md_to(files, filename, md_id, wrote, content) ==
    [md_id |-> md_id,
     filename |-> filename,
     wrote |-> wrote,
     files |-> IF wrote THEN write_file(files, filename, content) ELSE files]

write_md(files, metadata, mdtype, mdtypeversion, othermdtype, section) ==
    write_md_to(files,
                md_filename(metadata, mdtype, othermdtype),
                md_id_of(metadata),
                must_write(files, md_filename(metadata, mdtype, othermdtype)),
                serialize_mets(metadata, mdtype, mdtypeversion, othermdtype, section))

LogEntry(metadata, mdtype, mdtypeversion, othermdtype, section, r) ==
    [metadata |-> metadata, mdtype |-> mdtype, mdtypeversion |-> mdtypeversion,
     othermdtype |-> othermdtype, section |-> section,
     md_id |-> r.md_id, filename |-> r.filename, wrote |-> r.wrote]

(***************************************************************************)
(* write_dict.                                                             *)
(***************************************************************************)
dict_filename(premis_amd_id) ==
    LET digest == CHOOSE d \in DigestValues : "_" \o d = premis_amd_id
    IN  Workspace \o encode_path(<<digest, "-scraper.json">>)

write_dict(files, file_metadata_dict, premis_amd_id) ==
    IF dict_filename(premis_amd_id) \notin DOMAIN files
    THEN write_file(files, dict_filename(premis_amd_id), file_metadata_dict)
    ELSE files

(***************************************************************************)
(* The processes that work in the workspace.                               *)
(***************************************************************************)
Procs == {1, 2}
Idle == [pc |-> "idle"]

(***************************************************************************)
(* add_reference and add_md.                                               *)
(***************************************************************************)
new_reference_file(md_id, filepath, stream, directory) ==
    [md_id |-> md_id, stream |-> stream, path |-> filepath, path_type |-> "file"]

new_reference(md_id, filepath, stream, directory) ==
    [md_id |-> md_id,
     stream |-> stream,
     path |-> IF TruthyPath(directory) THEN directory ELSE filepath,
     path_type |-> IF TruthyPath(directory) THEN "directory" ELSE "file"]

new_md_element(metadata, filename, stream, directory, given_metadata_dict) ==
    [metadata |-> metadata, filename |-> filename, stream |-> stream,
     directory |-> directory, given_metadata_dict |-> given_metadata_dict]

Call(op, status) == [op |-> op, status |-> status]

add_reference(md_id, filepath, stream, directory) ==
    /\ ncalls.refs < MaxRefs
    /\ references' = Append(references, new_reference(md_id, filepath, stream, directory))
    /\ result' = Call("add_reference", "returned")
    /\ ncalls' = [ncalls EXCEPT !.refs = @ + 1]
    /\ UNCHANGED <<md_elements, index, tmp, mdfiles, dictfiles, md_log, flushed, procs>>

add_md_and_reference(metadata, filename, stream, directory, given_metadata_dict) ==
    /\ ncalls.mds < MaxMd
    /\ md_elements' = Append(md_elements,
                             new_md_element(metadata, filename, stream, directory,
                                            given_metadata_dict))
    /\ references' = Append(references,
                            new_reference(md_id_of(metadata), filename, stream, directory))
    /\ result' = Call("add_md", "returned")
    /\ ncalls' = [ncalls EXCEPT !.mds = @ + 1]
    /\ UNCHANGED <<index, tmp, mdfiles, dictfiles, md_log, flushed, procs>>

add_md(metadata, filename, stream, directory, given_metadata_dict) ==
    /\ ncalls.mds < MaxMd
    /\ md_elements' = Append(md_elements,
                             new_md_element(metadata, filename, stream, directory,
                                            given_metadata_dict))
    /\ result' = Call("add_md", "returned")
    /\ ncalls' = [ncalls EXCEPT !.mds = @ + 1]
    /\ UNCHANGED <<references, index, tmp, mdfiles, dictfiles, md_log, flushed, procs>>

(***************************************************************************)
(* The loop of write() over self.md_elements.  st is [mdfiles, dictfiles,  *)
(* references, file_metadata_dict, log].                                   *)
(***************************************************************************)
md_written(st, el, r, file_metadata_dict, entry) ==
    [mdfiles |-> r.files,
     dictfiles |-> IF TruthyDict(file_metadata_dict) /\ el.stream = None
                   THEN write_dict(st.dictfiles, file_metadata_dict, r.md_id)
                   ELSE st.dictfiles,
     references |-> Append(st.references,
                           new_reference(r.md_id, el.filename, el.stream, el.directory)),
     file_metadata_dict |-> file_metadata_dict,
     log |-> Append(st.log, entry)]

md_logged(st, el, r, mdtype, mdtypeversion, othermdtype, section) ==
    md_written(st, el, r,
               IF TruthyDict(el.given_metadata_dict)
               THEN el.given_metadata_dict
               ELSE st.file_metadata_dict,
               LogEntry(el.metadata, mdtype, mdtypeversion, othermdtype, section, r))

md_round(st, el, mdtype, mdtypeversion, othermdtype, section) ==
    md_logged(st, el,
              write_md(st.mdfiles, el.metadata, mdtype, mdtypeversion, othermdtype, section),
              mdtype, mdtypeversion, othermdtype, section)

RECURSIVE md_loop(_, _, _, _, _, _)
md_loop(st, els, mdtype, mdtypeversion, othermdtype, section) ==
    IF els = <<>> THEN st
    ELSE md_loop(md_round(st, Head(els), mdtype, mdtypeversion, othermdtype, section),
                 Tail(els), mdtype, mdtypeversion, othermdtype, section)

write_mds(mdtype, mdtypeversion, othermdtype, section, file_metadata_dict) ==
    md_loop([mdfiles |-> mdfiles, dictfiles |-> dictfiles, references |-> references,
             file_metadata_dict |-> file_metadata_dict, log |-> md_log],
            md_elements, mdtype, mdtypeversion, othermdtype, section)

Flushed(ref_file, refs) ==
    {[file |-> ref_file, key |-> _parse_refs(refs[i].path), stream |-> refs[i].stream,
      md_id |-> refs[i].md_id, path_type |-> refs[i].path_type] : i \in DOMAIN refs}

(***************************************************************************)
(* self.__init__(self.workspace): the buffers of the creator are replaced  *)
(* by empty lists.                                                         *)
(***************************************************************************)
clear_nothing(self) == self

clear(self) == [md_elements |-> <<>>, references |-> <<>>]

(***************************************************************************)
(* write(): the metadata files, then the references, then __init__.        *)
(***************************************************************************)
write(mdtype, mdtypeversion, othermdtype, section, file_metadata_dict, ref_file, ord) ==
    /\ references # <<>> \/ md_elements # <<>>
    /\ \E st \in {write_mds(mdtype, mdtypeversion, othermdtype, section, file_metadata_dict)},
          fs \in {[index |-> index[ref_file], tmp |-> tmp[ref_file]]} :
       \E fs1 \in {write_references(fs, st.references, ord,
                                    NumLines(fs, st.references, ord), TRUE)},
          self \in {clear([md_elements |-> md_elements, references |-> st.references])} :
          /\ mdfiles' = st.mdfiles
          /\ dictfiles' = st.dictfiles
          /\ md_log' = st.log
          /\ index' = [index EXCEPT ![ref_file] = fs1.index]
          /\ tmp' = [tmp EXCEPT ![ref_file] = fs1.tmp]
          /\ md_elements' = self.md_elements
          /\ references' = self.references
          /\ flushed' = flushed \cup Flushed(ref_file, st.references)
          /\ result' = Call("write", "returned")
          /\ UNCHANGED <<ncalls, procs>>

(***************************************************************************)
(* write() ended by an I/O error or by the end of the process while        *)
(* write_references is writing: written lines have reached the file, the   *)
(* rename is not reached and the buffers are not cleared.                  *)
(***************************************************************************)
write_interrupted(mdtype, mdtypeversion, othermdtype, section, dict, ref_file, ord, written) ==
    /\ references # <<>> \/ md_elements # <<>>
    /\ ncalls.fails < MaxFails
    /\ \E st \in {write_mds(mdtype, mdtypeversion, othermdtype, section, dict)},
          fs \in {[index |-> index[ref_file], tmp |-> tmp[ref_file]]} :
       \E fs1 \in {write_references(fs, st.references, ord, written, FALSE)} :
          /\ written \in 0..NumLines(fs, st.references, ord)
          /\ mdfiles' = st.mdfiles
          /\ dictfiles' = st.dictfiles
          /\ md_log' = st.log
          /\ index' = [index EXCEPT ![ref_file] = fs1.index]
          /\ tmp' = [tmp EXCEPT ![ref_file] = fs1.tmp]
          /\ references' = st.references
          /\ result' = Call("write", "raised")
          /\ ncalls' = [ncalls EXCEPT !.fails = @ + 1]
          /\ UNCHANGED <<md_elements, flushed, procs>>

(***************************************************************************)
(* A direct call of write_md.                                              *)
(***************************************************************************)
call_write_md(metadata, mdtype, mdtypeversion, othermdtype, section) ==
    /\ ncalls.mdcalls < MaxMdCalls
    /\ \E r \in {write_md(mdfiles, metadata, mdtype, mdtypeversion, othermdtype, section)} :
          /\ mdfiles' = r.files
          /\ md_log' = Append(md_log, LogEntry(metadata, mdtype, mdtypeversion,
                                               othermdtype, section, r))
          /\ result' = Call("write_md", "returned")
          /\ ncalls' = [ncalls EXCEPT !.mdcalls = @ + 1]
          /\ UNCHANGED <<md_elements, references, index, tmp, dictfiles, flushed, procs>>

(***************************************************************************)
(* The create_mix command.  check_missing_metadata raises ValueError when  *)
(* a value of the stream, the skipped keys aside, is None or '(:unav)'.    *)
(* create_mix gives the ValueError or KeyError it ends with, else None     *)
(* (here the empty sequence) for a file that is no image, else the MIX     *)
(* element.                                                                *)
(***************************************************************************)
SkippedKeys == {"mimetype", "stream_type", "index", "version"}

check_missing_none(stream) ==
    IF \E key \in DOMAIN stream \ SkippedKeys : stream[key] = NoneValue
    THEN "ValueError" ELSE ""

check_missing_metadata(stream) ==
    IF \E key \in DOMAIN stream \ SkippedKeys : stream[key] \in {NoneValue, Unav}
    THEN "ValueError" ELSE ""

Made(error, mix) == [error |-> error, mix |-> mix]

build_mix(stream_md) ==
    IF "compression" \notin DOMAIN stream_md THEN Made("KeyError", <<>>)
    ELSE IF "byte_order" \notin DOMAIN stream_md /\ stream_md["mimetype"] = "image/tiff"
    THEN Made("ValueError", <<>>)
    ELSE IF {"width", "height", "colorspace", "bps_value", "bps_unit",
             "samples_per_pixel"} \ DOMAIN stream_md # {}
    THEN Made("KeyError", <<>>)
    ELSE Made("", mix_mix(IF "byte_order" \in DOMAIN stream_md
                          THEN stream_md["byte_order"] ELSE NoneValue,
                          stream_md))

create_mix(streams) ==
    IF check_missing_metadata(streams[1]) # "" THEN Made("ValueError", <<>>)
    ELSE IF streams[1]["stream_type"] # "image" THEN Made("", <<>>)
    ELSE IF Len(streams) > 1 THEN Made("ValueError", <<>>)
    ELSE build_mix(streams[1])

(***************************************************************************)
(* main of create_mix: a new MixCreator, add_mix_md, which adds the MIX    *)
(* element of the file when create_mix made one, and write() with the      *)
(* types of MixCreator.  An exception of add_mix_md ends the run.          *)
(***************************************************************************)
add_mix_md(mix, filerel) ==
    IF mix # <<>> THEN <<new_md_element(mix, filerel, None, NonePath, NoneDict)>> ELSE <<>>

main(filename, streams, ref_file, ord) ==
    /\ md_elements = <<>>
    /\ references = <<>>
    /\ \E made \in {create_mix(streams)}, filerel \in {Text(normpath(filename.s))} :
          IF made.error # ""
          THEN /\ result' = [op |-> "create_mix", status |-> "raised", error |-> made.error,
                          filename |-> filename, streams |-> streams]
               /\ UNCHANGED <<md_elements, references, index, tmp, mdfiles, dictfiles,
                              md_log, flushed, ncalls, procs>>
          ELSE \E els \in {add_mix_md(made.mix, filerel)},
                  fs \in {[index |-> index[ref_file], tmp |-> tmp[ref_file]]} :
               \E st \in {md_loop([mdfiles |-> mdfiles, dictfiles |-> dictfiles,
                                   references |-> <<>>, file_metadata_dict |-> NoneDict,
                                   log |-> md_log],
                                  els, <<"NISOIMG">>, "2.0", NoneType, "None")} :
               \E fs1 \in {write_references(fs, st.references, ord,
                                            NumLines(fs, st.references, ord), TRUE)} :
                  /\ ncalls.mdcalls + Len(els) <= MaxMdCalls
                  /\ mdfiles' = st.mdfiles
                  /\ dictfiles' = st.dictfiles
                  /\ md_log' = st.log
                  /\ index' = [index EXCEPT ![ref_file] = fs1.index]
                  /\ tmp' = [tmp EXCEPT ![ref_file] = fs1.tmp]
                  /\ flushed' = flushed \cup Flushed(ref_file, st.references)
                  /\ result' = [op |-> "create_mix", status |-> "returned", error |-> "",
                                filename |-> filename, streams |-> streams]
                  /\ ncalls' = [ncalls EXCEPT !.mdcalls = @ + Len(els)]
                  /\ UNCHANGED <<md_elements, references, procs>>

(***************************************************************************)
(* write_md step by step, run by process p beside other processes of the   *)
(* same workspace: the test of os.path.exists, open(filename, 'wb+') that  *)
(* creates the file or empties it, and the write of the serialization.     *)
(* Truncated is the content of a file that has been opened and not         *)
(* written.  overlap is history: another call was running during the call. *)
(***************************************************************************)
Truncated ==
    [amd |-> "", ID |-> "", MDTYPE |-> <<>>, MDTYPEVERSION |-> "",
     OTHERMDTYPE |-> <<>>, xmlData |-> <<>>]

Running(proc) == proc.pc \notin {"idle", "returned", "raised"}

MdCall(pc, metadata, mdtype, mdtypeversion, othermdtype, section, wrote, seen, overlap) ==
    [pc |-> pc, metadata |-> metadata, mdtype |-> mdtype, mdtypeversion |-> mdtypeversion,
     othermdtype |-> othermdtype, section |-> section,
     md_id |-> md_id_of(metadata),
     filename |-> md_filename(metadata, mdtype, othermdtype),
     wrote |-> wrote, seen |-> seen, overlap |-> overlap]

Overlapped(p, proc) ==
    [q \in Procs |->
        IF q = p THEN proc
        ELSE IF Running(procs[q]) THEN [procs[q] EXCEPT !.overlap = TRUE]
        ELSE procs[q]]

md_check(p, metadata, mdtype, mdtypeversion, othermdtype, section) ==
    /\ ~Running(procs[p])
    /\ ncalls.mdcalls < MaxMdCalls
    /\ ncalls' = [ncalls EXCEPT !.mdcalls = @ + 1]
    /\ \E filename \in {md_filename(metadata, mdtype, othermdtype)},
          overlap \in {\E q \in Procs \ {p} : Running(procs[q])} :
          IF must_write(mdfiles, filename)
          THEN /\ procs' = Overlapped(p, MdCall("open", metadata, mdtype, mdtypeversion,
                                                othermdtype, section, TRUE, Truncated,
                                                overlap))
               /\ UNCHANGED <<md_log, result>>
          ELSE /\ procs' = Overlapped(p, MdCall("returned", metadata, mdtype, mdtypeversion,
                                                othermdtype, section, FALSE,
                                                mdfiles[filename], overlap))
               /\ md_log' = Append(md_log,
                                   LogEntry(metadata, mdtype, mdtypeversion, othermdtype,
                                            section,
                                            [md_id |-> md_id_of(metadata),
                                             filename |-> filename, wrote |-> FALSE]))
               /\ result' = Call("write_md", "returned")
    /\ UNCHANGED <<md_elements, references, index, tmp, mdfiles, dictfiles, flushed>>

md_open(p) ==
    /\ procs[p].pc = "open"
    /\ mdfiles' = write_file(mdfiles, procs[p].filename, Truncated)
    /\ procs' = [procs EXCEPT ![p].pc = "write"]
    /\ UNCHANGED <<md_elements, references, index, tmp, dictfiles, result, md_log,
                   flushed, ncalls>>

md_write(p) ==
    /\ procs[p].pc = "write"
    /\ mdfiles' = write_file(mdfiles, procs[p].filename,
                             serialize_mets(procs[p].metadata, procs[p].mdtype,
                                            procs[p].mdtypeversion, procs[p].othermdtype,
                                            procs[p].section))
    /\ procs' = [procs EXCEPT ![p].pc = "returned"]
    /\ md_log' = Append(md_log,
                        LogEntry(procs[p].metadata, procs[p].mdtype, procs[p].mdtypeversion,
                                 procs[p].othermdtype, procs[p].section,
                                 [md_id |-> procs[p].md_id, filename |-> procs[p].filename,
                                  wrote |-> TRUE]))
    /\ result' = Call("write_md", "returned")
    /\ UNCHANGED <<md_elements, references, index, tmp, dictfiles, flushed, ncalls>>

\* The call ends between the creation of the file and the end of the write:
\* an I/O error of the write, or the end of the process.
md_interrupt(p) ==
    /\ procs[p].pc = "write"
    /\ ncalls.fails < MaxFails
    /\ ncalls' = [ncalls EXCEPT !.fails = @ + 1]
    /\ procs' = [procs EXCEPT ![p].pc = "raised"]
    /\ result' = Call("write_md", "raised")
    /\ UNCHANGED <<md_elements, references, index, tmp, mdfiles, dictfiles, md_log,
                   flushed>>

(***************************************************************************)
(* write() ended by an exception of write_md for the element at place at:  *)
(* the elements before it were written and their references appended, the  *)
(* file of the element was not there (else write_md does no I/O) and is    *)
(* left missing when open() failed, Truncated when the write failed,       *)
(* write_references and __init__ are not reached.  would is history: what  *)
(* the call would have left had write_md not failed.                       *)
(***************************************************************************)
index_in_loop(fs, refs, ord) ==
    write_references(fs, refs, ord, NumLines(fs, refs, ord), TRUE)

index_at_abort(fs, refs, ord) == fs

WouldLeave(mdtype, mdtypeversion, othermdtype, section, file_metadata_dict, ref_file, ord) ==
    LET st == write_mds(mdtype, mdtypeversion, othermdtype, section, file_metadata_dict)
        fs == [index |-> index[ref_file], tmp |-> tmp[ref_file]]
    IN  [mdfiles |-> st.mdfiles,
         index |-> write_references(fs, st.references, ord,
                                    NumLines(fs, st.references, ord), TRUE).index]

Aborted(at, ord, would) ==
    [op |-> "write", status |-> "raised", at |-> at, ord |-> ord, would |-> would]

write_aborted(mdtype, mdtypeversion, othermdtype, section, file_metadata_dict, ref_file, at, opened, ord) ==
    /\ at \in DOMAIN md_elements
    /\ ncalls.fails < MaxFails
    /\ \E st \in {md_loop([mdfiles |-> mdfiles, dictfiles |-> dictfiles,
                           references |-> references,
                           file_metadata_dict |-> file_metadata_dict, log |-> md_log],
                          SubSeq(md_elements, 1, at - 1),
                          mdtype, mdtypeversion, othermdtype, section)},
          filename \in {md_filename(md_elements[at].metadata, mdtype, othermdtype)} :
       \E fs1 \in {index_at_abort([index |-> index[ref_file], tmp |-> tmp[ref_file]],
                                  st.references, ord)} :
          /\ must_write(st.mdfiles, filename)
          /\ mdfiles' = IF opened THEN write_file(st.mdfiles, filename, Truncated)
                        ELSE st.mdfiles
          /\ dictfiles' = st.dictfiles
          /\ md_log' = st.log
          /\ references' = st.references
          /\ index' = [index EXCEPT ![ref_file] = fs1.index]
          /\ tmp' = [tmp EXCEPT ![ref_file] = fs1.tmp]
          /\ result' = Aborted(at, ord,
                                WouldLeave(mdtype, mdtypeversion, othermdtype, section,
                                           file_metadata_dict, ref_file, ord))
          /\ ncalls' = [ncalls EXCEPT !.fails = @ + 1]
          /\ UNCHANGED <<md_elements, flushed, procs>>

(***************************************************************************)
(* write_references step by step, run by process p on the references of    *)
(* its own creator beside other processes of the same workspace: the loop  *)
(* over the references, which reads the index; the copy of the lines that  *)
(* stay into the '.tmp' file; the dump of one path after another, each     *)
(* with its own open(..., 'at'); the test for the '.tmp' file; the rename. *)
(***************************************************************************)
WrCall(pc, ref_file, refs, st, overlap) ==
    [pc |-> pc, ref_file |-> ref_file, refs |-> refs,
     merge |-> uses_tmp(st), paths_updated |-> st.paths_updated,
     todo |-> dump_lines(st.paths), overlap |-> overlap]

FlushedBy(proc) ==
    {[file |-> proc.ref_file, key |-> _parse_refs(proc.refs[i].path),
      stream |-> proc.refs[i].stream, md_id |-> proc.refs[i].md_id,
      path_type |-> proc.refs[i].path_type, overlap |-> proc.overlap] :
        i \in DOMAIN proc.refs}

wr_collect(p, ref_file, refs, ord) ==
    /\ ~Running(procs[p])
    /\ refs # <<>>
    /\ ncalls.refs + Len(refs) <= MaxRefs
    /\ ncalls' = [ncalls EXCEPT !.refs = @ + Len(refs)]
    /\ \E st \in {collect_paths(index[ref_file], refs, ord)},
          overlap \in {\E q \in Procs \ {p} : Running(procs[q])} :
          procs' = Overlapped(p, WrCall(IF uses_tmp(st) THEN "copy" ELSE "dump",
                                        ref_file, refs, st, overlap))
    /\ UNCHANGED <<md_elements, references, index, tmp, mdfiles, dictfiles, result,
                   md_log, flushed>>

wr_copy(p) ==
    /\ procs[p].pc = "copy"
    /\ tmp' = [tmp EXCEPT ![procs[p].ref_file] =
                   append_to(@, copy_through(index[procs[p].ref_file],
                                             procs[p].paths_updated), TRUE)]
    /\ procs' = [procs EXCEPT ![p].pc = "dump"]
    /\ UNCHANGED <<md_elements, references, index, mdfiles, dictfiles, result, md_log,
                   flushed, ncalls>>

wr_dump(p) ==
    /\ procs[p].pc = "dump"
    /\ IF procs[p].merge
       THEN /\ tmp' = [tmp EXCEPT ![procs[p].ref_file] =
                           append_to(@, <<Head(procs[p].todo)>>, TRUE)]
            /\ UNCHANGED index
       ELSE /\ index' = [index EXCEPT ![procs[p].ref_file] =
                             append_to(@, <<Head(procs[p].todo)>>, TRUE)]
            /\ UNCHANGED tmp
    /\ procs' = [procs EXCEPT ![p].todo = Tail(@),
                              ![p].pc = IF Tail(procs[p].todo) = <<>> THEN "exists"
                                        ELSE "dump"]
    /\ UNCHANGED <<md_elements, references, mdfiles, dictfiles, result, md_log,
                   flushed, ncalls>>

wr_return(p) ==
    /\ procs' = [procs EXCEPT ![p].pc = "returned"]
    /\ flushed' = flushed \cup FlushedBy(procs[p])
    /\ result' = Call("write_references", "returned")

wr_exists(p) ==
    /\ procs[p].pc = "exists"
    /\ IF tmp[procs[p].ref_file].exists
       THEN /\ procs' = [procs EXCEPT ![p].pc = "rename"]
            /\ UNCHANGED <<flushed, result>>
       ELSE wr_return(p)
    /\ UNCHANGED <<md_elements, references, index, tmp, mdfiles, dictfiles, md_log,
                   ncalls>>

\* os.rename raises an OSError when the '.tmp' file is no longer there.
wr_rename(p) ==
    /\ procs[p].pc = "rename"
    /\ IF tmp[procs[p].ref_file].exists
       THEN /\ index' = [index EXCEPT ![procs[p].ref_file] =
                             [exists |-> TRUE, lines |-> tmp[procs[p].ref_file].lines]]
            /\ tmp' = [tmp EXCEPT ![procs[p].ref_file] = AbsentFile]
            /\ wr_return(p)
       ELSE /\ procs' = [procs EXCEPT ![p].pc = "raised"]
            /\ result' = Call("write_references", "raised")
            /\ UNCHANGED <<index, tmp, flushed>>
    /\ UNCHANGED <<md_elements, references, mdfiles, dictfiles, md_log, ncalls>>

(***************************************************************************)
(* A reader: read_md_references on ref_file, then get_md_references with   *)
(* the filters given.                                                      *)
(***************************************************************************)
Lookup(ref_file, path, stream, directory, r) ==
    [op |-> "get_md_references", status |-> r.status, value |-> r.value, ids |-> r.ids,
     ref_file |-> ref_file, path |-> path, stream |-> stream, directory |-> directory]

call_get_md_references(ref_file, path, stream, directory) ==
    /\ result' = Lookup(ref_file, path, stream, directory,
                        get_md_references(read_md_references(index[ref_file]),
                                          path, stream, directory))
    /\ UNCHANGED <<md_elements, references, index, tmp, mdfiles, dictfiles,
                   md_log, flushed, ncalls, procs>>

(***************************************************************************)
(* A reader that collects the references of all the scripts.               *)
(***************************************************************************)
call_read_all_amd_references ==
    /\ result' = [op |-> "read_all_amd_references", status |-> "returned",
                  references |-> read_all_amd_references(index)]
    /\ UNCHANGED <<md_elements, references, index, tmp, mdfiles, dictfiles,
                   md_log, flushed, ncalls, procs>>

(***************************************************************************)
(* The next invocation: a new MetsSectionCreator on the same workspace.    *)
(***************************************************************************)
__init__ ==
    /\ references # <<>> \/ md_elements # <<>>
    /\ md_elements' = <<>>
    /\ references' = <<>>
    /\ result' = Call("__init__", "returned")
    /\ UNCHANGED <<index, tmp, mdfiles, dictfiles, md_log, flushed, ncalls, procs>>

(***************************************************************************)
(* Inputs.                                                                 *)
(***************************************************************************)
MdIds == {"_abc", "_def"}
Streams == {None, 0, 1}
FilePaths == {Text("data/a.tif"), Text("data/b.tif")}
Directories == {NonePath, Bytes("data/a.tif")}
RefFile == "md-references.json"
RefFiles == {RefFile}
WorkspaceRefFiles == RefFiles \cup Range(AmdRefFiles)

RECURSIVE Orders(_)
Orders(ids) ==
    IF ids = {} THEN {<<>>}
    ELSE UNION {{<<id>> \o ord : ord \in Orders(ids \ {id})} : id \in ids}

(***************************************************************************)
(* The IDs a write() call on ref_file can meet: those of the buffered      *)
(* references and elements and those already in the file.                  *)
(***************************************************************************)
LineIds(line) ==
    Range(line.md_ids) \cup UNION {Range(line.streams[i].ids) : i \in DOMAIN line.streams}

CallIds(ref_file) ==
    {references[i].md_id : i \in DOMAIN references}
    \cup {md_id_of(md_elements[i].metadata) : i \in DOMAIN md_elements}
    \cup UNION {LineIds(index[ref_file].lines[i]) : i \in DOMAIN index[ref_file].lines}

Init ==
    /\ md_elements = <<>>
    /\ references = <<>>
    /\ index = [f \in WorkspaceRefFiles |-> AbsentFile]
    /\ tmp = [f \in WorkspaceRefFiles |-> AbsentFile]
    /\ mdfiles = EmptyFn
    /\ dictfiles = EmptyFn
    /\ result = Call("__init__", "returned")
    /\ md_log = <<>>
    /\ flushed = {}
    /\ ncalls = [refs |-> 0, mds |-> 0, mdcalls |-> 0, fails |-> 0]
    /\ procs = [p \in Procs |-> Idle]

(***************************************************************************)
(* SpecRefs: invocations that add references and write them.               *)
(***************************************************************************)
DefaultType == <<"type">>
DefaultVersion == "version"

NextRefs ==
    \/ \E md_id \in MdIds, filepath \in FilePaths, stream \in Streams,
          directory \in Directories :
          add_reference(md_id, filepath, stream, directory)
    \/ \E ord \in Orders(CallIds(RefFile)) :
          write(DefaultType, DefaultVersion, NoneType, "None", NoneDict, RefFile, ord)
    \/ __init__

SpecRefs == Init /\ [][NextRefs]_vars

(***************************************************************************)
(* SpecFail: the same, and a write() may be interrupted while it writes    *)
(* the references.                                                         *)
(***************************************************************************)
FailStreams == {None}

NextFail ==
    \/ \E md_id \in MdIds, filepath \in FilePaths, stream \in FailStreams :
          add_reference(md_id, filepath, stream, NonePath)
    \/ \E ord \in Orders(CallIds(RefFile)) :
          write(DefaultType, DefaultVersion, NoneType, "None", NoneDict, RefFile, ord)
    \/ \E ord \in Orders(CallIds(RefFile)), written \in 0..(MaxRefs + 1) :
          write_interrupted(DefaultType, DefaultVersion, NoneType, "None", NoneDict,
                            RefFile, ord, written)
    \/ __init__

SpecFail == Init /\ [][NextFail]_vars

(***************************************************************************)
(* SpecRead: references of files, streams and a directory are written, and *)
(* a reader filters the index between the invocations.                     *)
(***************************************************************************)
ReadDirectories == {NonePath, Text("data")}
QueryPaths == {NonePath, Text("data/a.tif"), Text("data/b.tif")}
QueryStreams == {NoneKey, IntKey(1), StrKey(1), IntKey(2)}
QueryDirectories == {NonePath, Text("data/"), Text("other")}

\* A directory filter is tried alone and, once, together with a path and a
\* stream.
Queries ==
    {q \in [path : QueryPaths, stream : QueryStreams, directory : QueryDirectories] :
        \/ q.directory = NonePath
        \/ q.path = NonePath /\ q.stream = NoneKey
        \/ q.path = Text("data/a.tif") /\ q.stream = StrKey(1)}

NextRead ==
    \/ \E md_id \in MdIds, stream \in {None, 1}, directory \in ReadDirectories :
          add_reference(md_id, Text("data/a.tif"), stream, directory)
    \/ \E ord \in Orders(CallIds(RefFile)) :
          write(DefaultType, DefaultVersion, NoneType, "None", NoneDict, RefFile, ord)
    \/ \E q \in Queries :
          /\ references = <<>>
          /\ call_get_md_references(RefFile, q.path, q.stream, q.directory)
    \/ __init__

SpecRead == Init /\ [][NextRead]_vars

(***************************************************************************)
(* SpecAll: two of the six scripts write their references, the files of    *)
(* the other scripts are missing, and a reader collects all of them.       *)
(***************************************************************************)
WrittenRefFiles == {AmdRefFiles[1], AmdRefFiles[4]}

NextAll ==
    \/ \E md_id \in MdIds, filepath \in FilePaths, stream \in {None, 1} :
          add_reference(md_id, filepath, stream, NonePath)
    \/ \E ref_file \in WrittenRefFiles : \E ord \in Orders(CallIds(ref_file)) :
          write(DefaultType, DefaultVersion, NoneType, "None", NoneDict, ref_file, ord)
    \/ references = <<>> /\ call_read_all_amd_references
    \/ __init__

SpecAll == Init /\ [][NextAll]_vars

(***************************************************************************)
(* SpecMd: direct calls of write_md.                                       *)
(***************************************************************************)
MdTypes == {<<"NISOIMG">>, <<"OTHER">>}
MdTypeVersions == {"2.0"}
OtherMdTypes == {NoneType, <<"a", "/", "b">>, <<"a", "%", "2F", "b">>}
Sections == {"None", "digiprovmd"}

NextMd ==
    \E metadata \in Elements, mdtype \in MdTypes, mdtypeversion \in MdTypeVersions,
       othermdtype \in OtherMdTypes, section \in Sections :
       call_write_md(metadata, mdtype, mdtypeversion, othermdtype, section)

SpecMd == Init /\ [][NextMd]_vars

(***************************************************************************)
(* SpecConc: processes that call write_md in one workspace at once.        *)
(***************************************************************************)
NextConc ==
    \/ \E p \in Procs, metadata \in Elements :
          md_check(p, metadata, <<"NISOIMG">>, "2.0", NoneType, "None")
    \/ \E p \in Procs : md_open(p)
    \/ \E p \in Procs : md_write(p)
    \/ \E p \in Procs : md_interrupt(p)

SpecConc == Init /\ [][NextConc]_vars

(***************************************************************************)
(* SpecWriters: processes that call write_references on one index at once, *)
(* each with a batch of references of files without streams.               *)
(***************************************************************************)
BatchRefs ==
    {new_reference(md_id, Text("data/a.tif"), None, NonePath) : md_id \in MdIds}
    \cup {new_reference("_abc", Text("data/b.tif"), None, NonePath)}

Batches ==
    {<<r>> : r \in BatchRefs}
    \cup {b \in {<<r, q>> : r \in BatchRefs, q \in BatchRefs} : b[1].path # b[2].path}

BatchOrders(ref_file, refs) ==
    Orders({refs[i].md_id : i \in DOMAIN refs}
           \cup UNION {LineIds(index[ref_file].lines[i]) :
                          i \in DOMAIN index[ref_file].lines})

NextWriters ==
    \/ \E p \in Procs, refs \in Batches :
          \E ord \in BatchOrders(RefFile, refs) : wr_collect(p, RefFile, refs, ord)
    \/ \E p \in Procs : wr_copy(p)
    \/ \E p \in Procs : wr_dump(p)
    \/ \E p \in Procs : wr_exists(p)
    \/ \E p \in Procs : wr_rename(p)

SpecWriters == Init /\ [][NextWriters]_vars

(***************************************************************************)
(* SpecMix: runs of the create_mix command on files whose streams lack a   *)
(* value or a key, hold several images, are no image, or are fine.         *)
(***************************************************************************)
ScrapedStreams ==
    {<<TiffStream>>,
     <<JpegStream>>,
     <<[TiffStream EXCEPT !["version"] = Unav]>>,
     <<[TiffStream EXCEPT !["width"] = NoneValue]>>,
     <<[JpegStream EXCEPT !["colorspace"] = Unav]>>,
     <<[k \in DOMAIN TiffStream \ {"byte_order"} |-> TiffStream[k]]>>,
     <<[k \in DOMAIN TiffStream \ {"width"} |-> TiffStream[k]]>>,
     <<TextStream>>,
     <<[TextStream EXCEPT !["charset"] = NoneValue]>>,
     <<TiffStream, [TiffStream EXCEPT !["index"] = 1]>>,
     <<TextStream, [TiffStream EXCEPT !["index"] = 1]>>}

NextMix ==
    \E filename \in FilePaths, streams \in ScrapedStreams, ord \in Orders({md_id_of(MixTiff), md_id_of(MixJpeg)}) :
       main(filename, streams, RefFile, ord)

SpecMix == Init /\ [][NextMix]_vars

(***************************************************************************)
(* SpecAbort: elements are added and written, and a write() may be ended   *)
(* by an exception of write_md.                                            *)
(***************************************************************************)
NextAbort ==
    \/ \E metadata \in {SampleData, AttrOrder1}, filename \in FilePaths, stream \in {None, 1} :
          add_md(metadata, filename, stream, NonePath, NoneDict)
    \/ \E ord \in Orders(CallIds(RefFile)) :
          write(<<"NISOIMG">>, "2.0", NoneType, "None", NoneDict, RefFile, ord)
    \/ \E at \in 1..(MaxMd + 1), opened \in BOOLEAN, ord \in Orders(CallIds(RefFile)) :
          write_aborted(<<"NISOIMG">>, "2.0", NoneType, "None", NoneDict, RefFile,
                        at, opened, ord)
    \/ __init__

SpecAbort == Init /\ [][NextAbort]_vars

(***************************************************************************)
(* Spec: the life of one creator after another, with elements and          *)
(* references.                                                             *)
(***************************************************************************)
Dicts == {NoneDict, "{'streams': 1}"}

Next ==
    \/ \E stream \in {None, 1} :
          /\ ncalls.refs + ncalls.mds < MaxAdds
          /\ add_reference(md_id_of(SampleData), Text("data/a.tif"), stream, NonePath)
    \/ \E metadata \in {SampleData, AttrOrder1}, stream \in Streams,
          given_metadata_dict \in Dicts :
          /\ ncalls.refs + ncalls.mds < MaxAdds
          /\ add_md(metadata, Text("data/a.tif"), stream, NonePath, given_metadata_dict)
    \/ \E file_metadata_dict \in Dicts, ord \in Orders(CallIds(RefFile)) :
          write(<<"NISOIMG">>, "2.0", NoneType, "None", file_metadata_dict, RefFile, ord)
    \/ __init__

Spec == Init /\ [][Next]_vars

(***************************************************************************)
(* What the claims speak about.                                            *)
(***************************************************************************)
Returned(op) == Call(op, "returned")
Raised(op) == Call(op, "raised")

BatchKeys == {_parse_refs(references[i].path) : i \in DOMAIN references}

LineKeys(file) == {file.lines[i].key : i \in DOMAIN file.lines}

IdsOf(list) == {list[i] : i \in DOMAIN list}

NoDuplicates(list) == \A i, j \in DOMAIN list : list[i] = list[j] => i = j

\* The IDs listed for stream S in an entry read back from the index, where
\* the key of stream S is its decimal string.
StreamIds(entry, S) ==
    UNION {IdsOf(entry.streams[i].ids) :
              i \in {j \in DOMAIN entry.streams : entry.streams[j].key = StrKey(S)}}

FlushedFor(f, k) == {r \in flushed : r.file = f /\ r.key = k}

(***************************************************************************)
(* C1: after any sequence of write() calls made one after another from an  *)
(* absent index, every referenced path has an entry and the md_ids of the  *)
(* entry of a path are exactly the IDs that the calls referenced for that  *)
(* path without a stream.                                                  *)
(***************************************************************************)
C1_MdIdsAreTheUnion ==
    \A f \in RefFiles :
        LET refs == read_md_references(index[f])
        IN  \A r \in flushed :
                r.file = f =>
                    /\ refs # <<>>
                    /\ r.key \in DOMAIN refs[1]
                    /\ IdsOf(refs[1][r.key].md_ids) =
                          {q.md_id : q \in {x \in FlushedFor(f, r.key) : x.stream = None}}

(***************************************************************************)
(* C2: a batch of add_reference calls without a stream and without a       *)
(* directory, written to an absent index, reads back as a mapping whose    *)
(* keys are exactly the referenced paths; the entry of a path has          *)
(* path_type 'file', no streams, and md_ids holding each ID referenced for *)
(* the path exactly once.                                                  *)
(***************************************************************************)
PlainBatch ==
    \A i \in DOMAIN references :
        references[i].stream = None /\ references[i].path_type = "file"

BatchIds(k) ==
    {references[i].md_id : i \in {j \in DOMAIN references :
                                     _parse_refs(references[j].path) = k}}

C2_Step(f) ==
    (~index[f].exists /\ index'[f].exists /\ PlainBatch) =>
        LET refs == read_md_references(index'[f])
        IN  /\ refs # <<>>
            /\ DOMAIN refs[1] = BatchKeys
            /\ \A k \in BatchKeys :
                  /\ refs[1][k].path_type = "file"
                  /\ refs[1][k].streams = <<>>
                  /\ NoDuplicates(refs[1][k].md_ids)
                  /\ IdsOf(refs[1][k].md_ids) = BatchIds(k)

C2_BatchReadsBack == [][\A f \in RefFiles : C2_Step(f)]_vars

\* Reached: two IDs on one path, one of them also on a second path.
C2_Witness ==
    /\ result = Returned("write")
    /\ \A r \in flushed : r.stream = None /\ r.path_type = "file"
    /\ LET refs == read_md_references(index[RefFile])
       IN  /\ refs # <<>>
           /\ DOMAIN refs[1] = {"data/a.tif", "data/b.tif"}
           /\ IdsOf(refs[1]["data/a.tif"].md_ids) = {"_abc", "_def"}
           /\ IdsOf(refs[1]["data/b.tif"].md_ids) = {"_abc"}

(***************************************************************************)
(* C3: a reference that carries a stream index, 0 included, is recorded in *)
(* the ID list of that stream and not in the top-level md_ids of the entry *)
(* (unless the same ID is also referenced without a stream).               *)
(***************************************************************************)
C3_Step(f) ==
    (~index[f].exists /\ index'[f].exists) =>
        LET refs == read_md_references(index'[f])
        IN  \A i \in DOMAIN references :
                LET r == references[i]
                    k == _parse_refs(r.path)
                IN  r.stream # None =>
                        /\ r.md_id \in StreamIds(refs[1][k], r.stream)
                        /\ r.md_id \in IdsOf(refs[1][k].md_ids) =>
                              \E j \in DOMAIN references :
                                  /\ _parse_refs(references[j].path) = k
                                  /\ references[j].md_id = r.md_id
                                  /\ references[j].stream = None

C3_StreamRefsGoToStreams == [][\A f \in RefFiles : C3_Step(f)]_vars

(***************************************************************************)
(* C10: every ID that a returned write() referenced for a path and a       *)
(* stream index other than 0 is in the ID list of that stream of the path  *)
(* when the index is read back, also when the IDs came from different      *)
(* invocations.                                                            *)
(***************************************************************************)
C10_StreamIdsAccumulate ==
    \A f \in RefFiles :
        LET refs == read_md_references(index[f])
        IN  \A r \in flushed :
                (r.file = f /\ r.stream # None /\ r.stream # 0) =>
                    /\ refs # <<>>
                    /\ r.key \in DOMAIN refs[1]
                    /\ r.md_id \in StreamIds(refs[1][r.key], r.stream)

(***************************************************************************)
(* C4: a write_md call whose element, mdtype and othermdtype are those of  *)
(* an earlier call writes nothing, leaves every metadata file as it was,   *)
(* returns the (md_id, filename) pair the earlier call returned, and the    *)
(* file of that name is the one metadata file of the element's digest and  *)
(* suffix.                                                                 *)
(***************************************************************************)
SameMd(a, b) ==
    a.metadata = b.metadata /\ a.mdtype = b.mdtype /\ a.othermdtype = b.othermdtype

SuffixGiven(mdtype, othermdtype) ==
    IF othermdtype # NoneType THEN othermdtype ELSE mdtype

\* The file holds an element with the digest of the call's element, written
\* under the suffix of the call.
HoldsSameMd(content, call) ==
    /\ generate_digest(content.xmlData) = generate_digest(call.metadata)
    /\ SuffixGiven(content.MDTYPE, content.OTHERMDTYPE)
          = SuffixGiven(call.mdtype, call.othermdtype)

C4_Step ==
    (Len(md_log') = Len(md_log) + 1) =>
        LET second == md_log'[Len(md_log')]
        IN  \A i \in DOMAIN md_log :
                SameMd(md_log[i], second) =>
                    /\ ~second.wrote
                    /\ mdfiles' = mdfiles
                    /\ second.md_id = md_log[i].md_id
                    /\ second.filename = md_log[i].filename
                    /\ second.filename \in DOMAIN mdfiles'
                    /\ Cardinality({f \in DOMAIN mdfiles' :
                                       HoldsSameMd(mdfiles'[f], second)}) = 1

C4_WriteMdIdempotent == [][C4_Step]_vars

\* Reached: the same element and types written twice, with another section.
C4_Witness ==
    \E i, j \in DOMAIN md_log :
        /\ i < j
        /\ SameMd(md_log[i], md_log[j])
        /\ md_log[i].section # md_log[j].section
        /\ md_log[i].wrote
        /\ ~md_log[j].wrote
        /\ md_log[j].filename \in DOMAIN mdfiles

(***************************************************************************)
(* C5 as stated: the number of metadata files equals the number of         *)
(* distinct digests of the elements written.                               *)
(***************************************************************************)
C5_OneFilePerDigest ==
    Cardinality(DOMAIN mdfiles) =
        Cardinality({generate_digest(md_log[i].metadata) : i \in DOMAIN md_log})

(***************************************************************************)
(* C5 amended: the number of metadata files equals the number of distinct  *)
(* pairs (digest, suffix) of the elements written, the suffix being        *)
(* othermdtype when it is given and mdtype otherwise.                      *)
(***************************************************************************)
C5_OneFilePerDigestAndSuffix ==
    Cardinality(DOMAIN mdfiles) =
        Cardinality({<<generate_digest(md_log[i].metadata),
                       SuffixGiven(md_log[i].mdtype, md_log[i].othermdtype)>> :
                     i \in DOMAIN md_log})

\* Reached: one digest written under two suffixes, and one (digest, suffix)
\* pair written twice with sections that differ.
C5_Witness ==
    /\ Cardinality(DOMAIN mdfiles) = 2
    /\ \E i, j \in DOMAIN md_log :
          /\ i # j
          /\ generate_digest(md_log[i].metadata) = generate_digest(md_log[j].metadata)
          /\ md_log[i].mdtype = md_log[j].mdtype
          /\ md_log[i].othermdtype # md_log[j].othermdtype

(***************************************************************************)
(* C6: a write_references that returns leaves, for every path that has a   *)
(* line in the index and is not referenced in the batch, that same line in *)
(* the index.                                                              *)
(***************************************************************************)
C6_Step(f) ==
    result' = Returned("write") =>
        \A i \in DOMAIN index[f].lines :
            index[f].lines[i].key \notin BatchKeys =>
                /\ index'[f].exists
                /\ \E j \in DOMAIN index'[f].lines :
                      index'[f].lines[j] = index[f].lines[i]
                /\ \A j \in DOMAIN index'[f].lines :
                      index'[f].lines[j].key = index[f].lines[i].key =>
                          index'[f].lines[j] = index[f].lines[i]

C6_UnreferencedLinesKept == [][\A f \in RefFiles : C6_Step(f)]_vars

(***************************************************************************)
(* C7: a write_references that returns and whose batch has no path with a  *)
(* line in the index leaves the '.tmp' file alone and makes the index its  *)
(* previous lines followed by one line for each path of the batch.         *)
(***************************************************************************)
PureAppend(f) == BatchKeys \cap LineKeys(index[f]) = {}

C7_Step(f) ==
    (result' = Returned("write") /\ references # <<>> /\ PureAppend(f)) =>
        LET old == index[f].lines
            new == index'[f].lines
        IN  /\ tmp'[f] = tmp[f]
            /\ index'[f].exists
            /\ Len(new) = Len(old) + Cardinality(BatchKeys)
            /\ SubSeq(new, 1, Len(old)) = old
            /\ {new[i].key : i \in (Len(old) + 1)..Len(new)} = BatchKeys

C7_PureAppendOnlyAppends == [][\A f \in RefFiles : C7_Step(f)]_vars

(***************************************************************************)
(* C8: in a write_references whose batch has a path with a line in the     *)
(* index, the index changes only when the call returns, and it then holds  *)
(* every line of a path that is not in the batch and one line for every    *)
(* path of the batch; when the call is interrupted the index is as it was. *)
(***************************************************************************)
MergePath(f) == BatchKeys \cap LineKeys(index[f]) # {}

C8_Step(f) ==
    (result'.op = "write" /\ references # <<>> /\ MergePath(f)) =>
        /\ result' = Raised("write") => index'[f] = index[f]
        /\ index'[f] # index[f] =>
              /\ \A i \in DOMAIN index[f].lines :
                    index[f].lines[i].key \notin BatchKeys =>
                        \E j \in DOMAIN index'[f].lines :
                            index'[f].lines[j] = index[f].lines[i]
              /\ \A k \in BatchKeys :
                    \E j \in DOMAIN index'[f].lines : index'[f].lines[j].key = k
              /\ ~tmp'[f].exists

C8_ReplacedOnlyWhenComplete == [][\A f \in RefFiles : C8_Step(f)]_vars

\* Reached: an interrupted merge has left a '.tmp' file that lacks a line of
\* the batch, beside the index that still has its line.
C8_Witness ==
    /\ result = Raised("write")
    /\ index[RefFile].exists
    /\ tmp[RefFile].exists
    /\ BatchKeys \cap LineKeys(index[RefFile]) # {}
    /\ ~(BatchKeys \subseteq LineKeys(tmp[RefFile]))

(***************************************************************************)
(* C9: the creator is Empty after construction, Buffering after add_md or  *)
(* add_reference, and Empty again after every write() that returns, so     *)
(* that nothing of a written batch is left for a later write().            *)
(***************************************************************************)
Empty == md_elements = <<>> /\ references = <<>>
Buffering == ~Empty

C9_TwoPhases ==
    /\ result.op = "__init__" => Empty
    /\ result.op \in {"add_md", "add_reference"} => Buffering
    /\ result = Returned("write") => Empty

\* Reached: a second batch written by a creator that was Empty in between.
C9_Witness ==
    /\ result = Returned("write")
    /\ Empty
    /\ ncalls.mds >= 1
    /\ ncalls.refs >= 1
    /\ Cardinality(flushed) >= 2

(***************************************************************************)
(* C11: in every index reached by add_reference, add_md and write calls    *)
(* from an absent index, the md_ids list of every entry and the ID list of *)
(* every stream of every entry hold each ID at most once, and an entry has *)
(* one list per stream.                                                    *)
(***************************************************************************)
DuplicateFree(entry) ==
    /\ NoDuplicates(entry.md_ids)
    /\ \A i \in DOMAIN entry.streams : NoDuplicates(entry.streams[i].ids)
    /\ \A i, j \in DOMAIN entry.streams :
          entry.streams[i].key = entry.streams[j].key => i = j

C11_NoDuplicateIds ==
    \A f \in RefFiles :
        LET refs == read_md_references(index[f])
        IN  refs # <<>> => \A k \in DOMAIN refs[1] : DuplicateFree(refs[1][k])

\* Reached: the same (path, stream, ID) reference written by two add_md
\* calls, for a stream, and the ID is once in the list of the stream.
C11_Witness ==
    /\ result = Returned("write")
    /\ Len(md_log) = 2
    /\ Cardinality(flushed) = 1
    /\ \A r \in flushed : r.stream = 1
    /\ LET refs == read_md_references(index[RefFile])
       IN  /\ refs # <<>>
           /\ \A r \in flushed : StreamIds(refs[1][r.key], 1) = {r.md_id}

(***************************************************************************)
(* What a reader sees.                                                     *)
(***************************************************************************)
Looked == result.op = "get_md_references"

NoFilter == result.path = NonePath /\ result.stream = NoneKey /\ result.directory = NonePath

Mapping == read_md_references(index[result.ref_file])

EntriesOfType(refs, types) == {k \in DOMAIN refs : refs[k].path_type \in types}

MdIdsOver(refs, keys) == UNION {IdsOf(refs[k].md_ids) : k \in keys}

(***************************************************************************)
(* C12 as stated: with no filter get_md_references returns the union of    *)
(* the md_ids of the entries whose path_type is 'file', and no ID that     *)
(* only a directory entry holds.                                           *)
(***************************************************************************)
C12_UnionOverFiles ==
    (Looked /\ NoFilter /\ Mapping # <<>>) =>
        result.ids = MdIdsOver(Mapping[1], EntriesOfType(Mapping[1], {"file"}))

(***************************************************************************)
(* C12 amended: with no filter get_md_references returns the union of the  *)
(* md_ids of all entries, those of directories included; the IDs that are  *)
(* only in the list of a stream are not in it.                             *)
(***************************************************************************)
C12_UnionOverAllEntries ==
    (Looked /\ NoFilter /\ Mapping # <<>>) =>
        /\ result.status = "returned"
        /\ result.ids = MdIdsOver(Mapping[1], DOMAIN Mapping[1])

\* Reached: an unfiltered lookup on an index with a file entry and a directory
\* entry returned an ID that only the directory entry holds.
C12_Witness ==
    /\ Looked /\ NoFilter /\ Mapping # <<>>
    /\ EntriesOfType(Mapping[1], {"file"}) # {}
    /\ \E id \in result.ids :
          /\ id \in MdIdsOver(Mapping[1], EntriesOfType(Mapping[1], {"directory"}))
          /\ id \notin MdIdsOver(Mapping[1], EntriesOfType(Mapping[1], {"file"}))

(***************************************************************************)
(* C13: get_md_references with path P and the stream index S that was      *)
(* given to add_reference (an int) returns exactly the IDs that the index  *)
(* holds for stream S of P, and the empty set when it holds none.          *)
(***************************************************************************)
C13_StreamLookup ==
    (Looked /\ Mapping # <<>> /\ result.directory = NonePath
        /\ result.stream.t = "int" /\ result.path.t = "text") =>
        result.ids = IF result.path.s \in DOMAIN Mapping[1]
                     THEN StreamIds(Mapping[1][result.path.s], result.stream.v)
                     ELSE {}

(***************************************************************************)
(* C14: on a mapping get_md_references returns a set whatever the filters  *)
(* are, and the empty set when the directory, the path or the stream that  *)
(* is looked up is not in the mapping.                                     *)
(***************************************************************************)
MissesDirectory ==
    /\ TruthyPath(result.directory)
    /\ normpath(result.directory.s) \notin DOMAIN Mapping[1]

MissesPath ==
    /\ ~TruthyPath(result.directory)
    /\ ~NoFilter
    /\ result.path.t = "none" \/ result.path.s \notin DOMAIN Mapping[1]

MissesStream ==
    /\ ~TruthyPath(result.directory)
    /\ result.stream # NoneKey
    /\ result.path.t = "text"
    /\ result.path.s \in DOMAIN Mapping[1]
    /\ ~HasKey(Mapping[1][result.path.s].streams, result.stream)

C14_LookupNeverRaises ==
    (Looked /\ Mapping # <<>>) =>
        /\ result.status = "returned"
        /\ result.value = "set"
        /\ (MissesDirectory \/ MissesPath \/ MissesStream) => result.ids = {}

\* Reached: a lookup of a path that the index, which has entries, does not have.
C14_Witness ==
    /\ Looked /\ Mapping # <<>>
    /\ DOMAIN Mapping[1] # {}
    /\ MissesPath
    /\ result.path.t = "text"
    /\ result.value = "set"
    /\ result.ids = {}

(***************************************************************************)
(* C15: add_reference appends one reference to the buffer and leaves the   *)
(* references before it alone; the reference has the directory as its path *)
(* and path_type 'directory' when a directory was given, and the filepath  *)
(* and path_type 'file' otherwise; the entry that a write() creates for    *)
(* the key of a reference has the path_type of that reference.             *)
(***************************************************************************)
CreatesEntry(f, i) ==
    /\ _parse_refs(references[i].path) \notin LineKeys(index[f])
    /\ \A j \in 1..(i - 1) :
          _parse_refs(references[j].path) # _parse_refs(references[i].path)

C15_Step ==
    /\ result' = Returned("add_reference") =>
          \A md_id \in {references'[Len(references')].md_id},
             stream \in {references'[Len(references')].stream},
             filepath \in FilePaths, directory \in Directories :
             add_reference(md_id, filepath, stream, directory) =>
                 references' = Append(references,
                                      IF directory # NonePath
                                      THEN [md_id |-> md_id, stream |-> stream,
                                            path |-> directory, path_type |-> "directory"]
                                      ELSE [md_id |-> md_id, stream |-> stream,
                                            path |-> filepath, path_type |-> "file"])
    /\ result' = Returned("write") =>
          \A f \in RefFiles : \A refs \in {read_md_references(index'[f])} :
              \A i \in DOMAIN references :
                  CreatesEntry(f, i) =>
                      /\ refs # <<>>
                      /\ _parse_refs(references[i].path) \in DOMAIN refs[1]
                      /\ refs[1][_parse_refs(references[i].path)].path_type
                            = references[i].path_type

C15_DirectoryOverridesPath == [][C15_Step]_vars

\* Reached: the index has the entry of a directory and the entry of a file,
\* each with its path_type.
C15_Witness ==
    /\ result = Returned("write")
    /\ LET refs == read_md_references(index[RefFile])
       IN  /\ refs # <<>>
           /\ \E r \in flushed :
                 r.path_type = "directory" /\ refs[1][r.key].path_type = "directory"
           /\ \E r \in flushed :
                 r.path_type = "file" /\ refs[1][r.key].path_type = "file"

(***************************************************************************)
(* C16: a write() that is given the dict passed creates the side-channel   *)
(* file of metadata ID m exactly when a buffered element that resolves to  *)
(* m has no stream and has a dict, its own or the one passed to write();   *)
(* an element without a dict of its own, in a write() that was given none, *)
(* makes no side-channel file.                                             *)
(***************************************************************************)
HasSideDict(el, passed) ==
    TruthyDict(el.given_metadata_dict) \/ TruthyDict(passed)

WantsSideFile(m, passed) ==
    \E i \in DOMAIN md_elements :
        /\ md_id_of(md_elements[i].metadata) = m
        /\ md_elements[i].stream = None
        /\ HasSideDict(md_elements[i], passed)

C16_Step ==
    \A passed \in Dicts, ord \in Orders(CallIds(RefFile)) :
        write(<<"NISOIMG">>, "2.0", NoneType, "None", passed, RefFile, ord) =>
            \A m \in {md_id_of(el) : el \in Elements} :
                dict_filename(m) \notin DOMAIN dictfiles =>
                    (dict_filename(m) \in DOMAIN dictfiles' <=> WantsSideFile(m, passed))

C16_SideFileOnlyWithDict == [][C16_Step]_vars

(***************************************************************************)
(* What a write_md call of a process found and left.                       *)
(***************************************************************************)
Complete(content, call) ==
    /\ content # Truncated
    /\ content.ID = call.md_id
    /\ generate_digest(content.xmlData) = generate_digest(call.metadata)

FoundExisting(proc) == proc.pc = "returned" /\ ~proc.wrote

(***************************************************************************)
(* C17: a write_md call that finds the file of its element existing, and   *)
(* returns without writing, has found a file that holds the complete       *)
(* serialization, also after a call that was interrupted and beside a call *)
(* that is writing.                                                        *)
(***************************************************************************)
C17_ExistingFileIsComplete ==
    \A p \in Procs : FoundExisting(procs[p]) => Complete(procs[p].seen, procs[p])

(***************************************************************************)
(* C19: a step of a write_md call changes no file but the file of its own  *)
(* element; a call that writes returns the ID and the file name of its own *)
(* element and leaves the complete serialization in the file; and when two *)
(* calls on elements with different digests are all the calls made in the  *)
(* workspace, both files exist in the end, each complete for its element.  *)
(***************************************************************************)
OwnFileOnly(p) ==
    procs'[p] # procs[p] /\ Running(procs[p]) =>
        \A f \in DOMAIN mdfiles \cup DOMAIN mdfiles' :
            f # procs[p].filename =>
                f \in DOMAIN mdfiles /\ f \in DOMAIN mdfiles' /\ mdfiles'[f] = mdfiles[f]

WritesOwnFile(p) ==
    (procs[p].pc = "write" /\ procs'[p].pc = "returned") =>
        /\ procs'[p].md_id = md_id_of(procs'[p].metadata)
        /\ procs'[p].filename \in DOMAIN mdfiles'
        /\ Complete(mdfiles'[procs'[p].filename], procs'[p])

TwoCallsOnly ==
    /\ ncalls.mdcalls = 2
    /\ ncalls.fails = 0
    /\ \A p \in Procs : procs[p].pc = "returned"
    /\ generate_digest(procs[1].metadata) # generate_digest(procs[2].metadata)

BothFilesComplete ==
    /\ procs[1].filename # procs[2].filename
    /\ \A p \in Procs :
          /\ procs[p].wrote
          /\ procs[p].filename \in DOMAIN mdfiles
          /\ Complete(mdfiles[procs[p].filename], procs[p])

C19_Step ==
    /\ \A p \in Procs : OwnFileOnly(p) /\ WritesOwnFile(p)
    /\ TwoCallsOnly' => BothFilesComplete'

C19_DifferentDigestsAreSafe == [][C19_Step]_vars

\* Reached: two calls on different digests that ran at the same time have
\* returned.
C19_Witness ==
    /\ TwoCallsOnly
    /\ BothFilesComplete
    /\ \A p \in Procs : procs[p].overlap

(***************************************************************************)
(* C18: when the write_references calls on an index ran one after another, *)
(* every reference that a call wrote is in the index; when two calls ran   *)
(* at the same time there is an interleaving after which a reference that  *)
(* one of them wrote is not in the index.                                  *)
(***************************************************************************)
InIndex(r) ==
    LET refs == read_md_references(index[r.file])
    IN  /\ refs # <<>>
        /\ r.key \in DOMAIN refs[1]
        /\ r.md_id \in IdsOf(refs[1][r.key].md_ids)

AllDone == \A p \in Procs : ~Running(procs[p])

C18_OneAfterAnotherLosesNothing ==
    (AllDone /\ \A r \in flushed : ~r.overlap) => \A r \in flushed : InIndex(r)

\* Reached: two writers that ran at the same time have both returned, and a
\* reference that one of them wrote is not in the index.
C18_Witness ==
    /\ \A p \in Procs : procs[p].pc = "returned" /\ procs[p].overlap
    /\ ncalls.refs = 2
    /\ \E r \in flushed : ~InIndex(r)

(***************************************************************************)
(* C20: the mapping that read_all_amd_references returns has an entry for  *)
(* every path of every file that exists among the six; the md_ids of the   *)
(* entry are the md_ids of the path in the files, in the order of the      *)
(* files, one after another, and so is the ID list of each stream; hence   *)
(* get_md_references on the mapping yields, for a path and for a stream of *)
(* a path, the union of the IDs that the files hold for it.  A file that   *)
(* is missing adds nothing.                                                *)
(***************************************************************************)
FileEntry(f, k) ==
    LET refs == read_md_references(index[f])
    IN  IF refs # <<>> /\ k \in DOMAIN refs[1] THEN <<refs[1][k]>> ELSE <<>>

FileKeys(f) ==
    LET refs == read_md_references(index[f])
    IN  IF refs = <<>> THEN {} ELSE DOMAIN refs[1]

StreamList(entry, key) ==
    IF HasKey(entry.streams, key) THEN entry.streams[GetKey(entry.streams, key)].ids
    ELSE <<>>

StreamKeys(entry) == {entry.streams[i].key : i \in DOMAIN entry.streams}

RECURSIVE MdIdsAcross(_, _)
MdIdsAcross(ref_files, k) ==
    IF ref_files = <<>> THEN <<>>
    ELSE (IF FileEntry(Head(ref_files), k) = <<>> THEN <<>>
          ELSE FileEntry(Head(ref_files), k)[1].md_ids)
         \o MdIdsAcross(Tail(ref_files), k)

RECURSIVE StreamIdsAcross(_, _, _)
StreamIdsAcross(ref_files, k, key) ==
    IF ref_files = <<>> THEN <<>>
    ELSE (IF FileEntry(Head(ref_files), k) = <<>> THEN <<>>
          ELSE StreamList(FileEntry(Head(ref_files), k)[1], key))
         \o StreamIdsAcross(Tail(ref_files), k, key)

StreamKeysAcross(k) ==
    UNION {IF FileEntry(f, k) = <<>> THEN {} ELSE StreamKeys(FileEntry(f, k)[1]) :
              f \in Range(AmdRefFiles)}

ReadAll == result.op = "read_all_amd_references"

SameLogicalContent(a, b) ==
    /\ Len(a) = Len(b)
    /\ \A n \in DOMAIN a :
          /\ a[n].tag = b[n].tag
          /\ a[n].depth = b[n].depth
          /\ \A x \in IdsOf(a[n].attrs) \cup IdsOf(b[n].attrs) :
                x \in IdsOf(a[n].attrs) /\ x \in IdsOf(b[n].attrs)

SameSuffix(a, b) ==
    SuffixGiven(a.mdtype, a.othermdtype) = SuffixGiven(b.mdtype, b.othermdtype)

C21_DigestOfLogicalContent ==
    \A i, j \in DOMAIN md_log :
        /\ SameLogicalContent(md_log[i].metadata, md_log[j].metadata)
              <=> md_log[i].md_id = md_log[j].md_id
        /\ SameSuffix(md_log[i], md_log[j]) =>
              (SameLogicalContent(md_log[i].metadata, md_log[j].metadata)
                  <=> md_log[i].filename = md_log[j].filename)

\* Reached: an element written after the same element with its attributes
\* in the other order, found as already written.
C21_Witness ==
    \E i, j \in DOMAIN md_log :
        /\ i < j
        /\ md_log[i].metadata = AttrOrder1
        /\ md_log[j].metadata = AttrOrder2
        /\ md_log[i].md_id = md_log[j].md_id
        /\ md_log[i].wrote
        /\ ~md_log[j].wrote

(***************************************************************************)
(* C22: add_md and add_reference do no I/O.  A call of add_md appends one  *)
(* item to md_elements and leaves references as they were, a call of       *)
(* add_reference appends one item to references and leaves md_elements as  *)
(* they were, and both leave every metadata file, every side file and the  *)
(* reference index with its temporary file unchanged; a file changes in a  *)
(* step of write() only.                                                   *)
(***************************************************************************)
Files == <<index, tmp, mdfiles, dictfiles>>

AppendsOne(before, after) ==
    Len(after) = Len(before) + 1 /\ SubSeq(after, 1, Len(before)) = before

C22_Step ==
    /\ ncalls'.mds = ncalls.mds + 1 =>
          /\ AppendsOne(md_elements, md_elements')
          /\ references' = references
          /\ Files' = Files
    /\ ncalls'.refs = ncalls.refs + 1 =>
          /\ AppendsOne(references, references')
          /\ md_elements' = md_elements
          /\ Files' = Files
    /\ Files' # Files => result'.op = "write" /\ ncalls' = ncalls

C22_AddsDoNoIO == [][C22_Step]_vars

\* Reached: an element and a reference added by a creator whose workspace
\* holds a metadata file, a side file and an index already.
C22_Witness ==
    /\ result.op \in {"add_md", "add_reference"}
    /\ md_elements # <<>>
    /\ references # <<>>
    /\ DOMAIN mdfiles # {}
    /\ DOMAIN dictfiles # {}
    /\ index[RefFile].exists

(***************************************************************************)
(* C23: a run of create_mix on a file whose stream has a required value    *)
(* that is missing (None or '(:unav)', or no byte order in a TIFF image),  *)
(* or on a file that holds more than one image, ends with ValueError in    *)
(* add_mix_md: write_md is not called and no metadata file, no side file   *)
(* and no line of the reference index changes.                             *)
(***************************************************************************)
MissingValue(stream) ==
    \/ \E key \in DOMAIN stream :
          /\ key \notin {"mimetype", "stream_type", "index", "version"}
          /\ (stream[key] = NoneValue \/ stream[key] = Unav)
    \/ /\ stream["stream_type"] = "image"
       /\ stream["mimetype"] = "image/tiff"
       /\ "compression" \in DOMAIN stream
       /\ "byte_order" \notin DOMAIN stream

MultipleImages(streams) ==
    Len(streams) > 1 /\ \A i \in DOMAIN streams : streams[i]["stream_type"] = "image"

C23_Step ==
    (/\ result'.op = "create_mix"
     /\ MissingValue(result'.streams[1]) \/ MultipleImages(result'.streams)) =>
        /\ result'.status = "raised"
        /\ result'.error = "ValueError"
        /\ Files' = Files
        /\ md_log' = md_log

C23_NothingWrittenOnValueError == [][C23_Step]_vars

\* Reached: a run on data/b.tif with a missing value, after a run that wrote
\* the metadata of data/a.tif; the index holds no line of data/b.tif.
C23_Witness ==
    /\ result.op = "create_mix"
    /\ result.status = "raised"
    /\ result.error = "ValueError"
    /\ MissingValue(result.streams[1])
    /\ result.filename = Text("data/b.tif")
    /\ index[RefFile].exists
    /\ DOMAIN mdfiles # {}
    /\ "data/b.tif" \notin LineKeys(index[RefFile])

(***************************************************************************)
(* C24: write() writes the reference index after write_md has returned for *)
(* every buffered element.  A write() that write_md ends with an exception *)
(* leaves the index and its temporary file as they were, and every ID of   *)
(* a buffered element that the index holds has its metadata file in the    *)
(* workspace.                                                              *)
(***************************************************************************)
IndexIds(f) == UNION {LineIds(index[f].lines[i]) : i \in DOMAIN index[f].lines}

HasMdFile(id) ==
    \E metadata \in Elements :
        /\ md_id_of(metadata) = id
        /\ md_filename(metadata, <<"NISOIMG">>, NoneType) \in DOMAIN mdfiles

EndedByWriteMd == result.op = "write" /\ result.status = "raised"

C24_Step ==
    /\ (ncalls'.fails = ncalls.fails + 1) =>
          EndedByWriteMd' /\ index' = index /\ tmp' = tmp
    /\ \A id \in IndexIds(RefFile)' : HasMdFile(id)'

C24_IndexAfterMetadata == [][C24_Step]_vars

\* Reached: write_md failed for the second element of a write() whose first
\* element was written; the index does not hold the ID of the first element.
C24_Witness ==
    /\ EndedByWriteMd
    /\ result.at = 2
    /\ \E i \in DOMAIN md_elements :
          /\ md_id_of(md_elements[i].metadata) \notin IndexIds(RefFile)
          /\ HasMdFile(md_id_of(md_elements[i].metadata))

(***************************************************************************)
(* C25: after a write_md call has returned (md_id, filename), the file of  *)
(* that name holds one envelope with the ID md_id, a digiprovMD when the   *)
(* section of the call is 'digiprovmd' and a techMD otherwise, also when   *)
(* the element was written before under the same suffix with another       *)
(* section.                                                                *)
(***************************************************************************)
KindOfSection(section) == IF section = "digiprovmd" THEN "digiprovMD" ELSE "techMD"

OneLinePerKey(file) ==
    \A i, j \in DOMAIN file.lines :
        json_loads(file.lines[i]).key = json_loads(file.lines[j]).key => i = j

FirstIsLast(file) ==
    \A refs \in {read_md_references(file)} :
        \A i \in DOMAIN file.lines :
            \A k \in {json_loads(file.lines[i]).key} :
                _get_path_from_reference_file(file, k) = <<refs[1][k]>>

C26_OneLinePerPath ==
    \A f \in WorkspaceRefFiles :
        index[f].exists => OneLinePerKey(index[f]) /\ FirstIsLast(index[f])

\* Reached: after a write() that returned, an index of two lines, a line
\* with two IDs after a line with one.
C26_Witness ==
    \E f \in WorkspaceRefFiles :
        /\ result = Returned("write")
        /\ Len(index[f].lines) = 2
        /\ Len(json_loads(index[f].lines[2]).entry.md_ids) = 2
        /\ Len(json_loads(index[f].lines[1]).entry.md_ids) = 1
        /\ \E r \in flushed : r.file = f /\ r.key = json_loads(index[f].lines[1]).key

(***************************************************************************)
(* C27: a '.tmp' file that an interrupted write_references left behind     *)
(* has no effect on a later write_references that returns: the index has   *)
(* the lines it would have had without the '.tmp' file, whether the call   *)
(* merges or only appends.                                                 *)
(***************************************************************************)
WithoutTmp(f) == [index |-> index[f], tmp |-> AbsentFile]

C27_Step ==
    \A ord \in Orders(CallIds(RefFile)) :
        write(DefaultType, DefaultVersion, NoneType, "None", NoneDict, RefFile, ord) =>
            index'[RefFile] =
                write_references(WithoutTmp(RefFile), references, ord,
                                 NumLines(WithoutTmp(RefFile), references, ord),
                                 TRUE).index

C27_StaleTmpHasNoEffect == [][C27_Step]_vars

(***************************************************************************)
(* C28: when write() was ended by an exception of write_md and is called   *)
(* again on the same creator and returns, the index and the metadata files *)
(* are those the first call would have left had it returned: no buffered   *)
(* element is lost and the references appended twice give no ID twice.     *)
(***************************************************************************)
C28_Step ==
    (/\ EndedByWriteMd
     /\ write(<<"NISOIMG">>, "2.0", NoneType, "None", NoneDict, RefFile, result.ord)) =>
        /\ mdfiles' = result.would.mdfiles
        /\ index'[RefFile] = result.would.index
        /\ \A i \in DOMAIN index'[RefFile].lines :
              DuplicateFree(json_loads(index'[RefFile].lines[i]).entry)

C28_RetryAfterAbort == [][C28_Step]_vars

\* The same for the index alone.
C28_IndexOfRetry ==
    [][(/\ EndedByWriteMd
        /\ write(<<"NISOIMG">>, "2.0", NoneType, "None", NoneDict, RefFile, result.ord)) =>
           index'[RefFile] = result.would.index]_vars

(***************************************************************************)
(* C29: the path_type of an index entry is set when the entry is made, by  *)
(* the first reference to its key or by the line taken over from the index *)
(* on disk, and does not change afterwards: a write() leaves the path_type *)
(* of every line it finds as it is, gives a new line the path_type of the  *)
(* first reference of the batch to its key, and puts the ID of every       *)
(* reference into the line of its key, whatever the path_type of the       *)
(* reference.                                                              *)
(***************************************************************************)
LineOf(file, k) == file.lines[CHOOSE i \in DOMAIN file.lines : file.lines[i].key = k]

FirstRef(k) ==
    references[CHOOSE i \in DOMAIN references :
                  /\ _parse_refs(references[i].path) = k
                  /\ \A j \in DOMAIN references :
                        _parse_refs(references[j].path) = k => i <= j]

C29_Step ==
    (result' = Returned("write") /\ references # <<>>) =>
        /\ \A k \in LineKeys(index[RefFile]) :
              /\ k \in LineKeys(index'[RefFile])
              /\ LineOf(index'[RefFile], k).path_type = LineOf(index[RefFile], k).path_type
        /\ \A k \in BatchKeys \ LineKeys(index[RefFile]) :
              /\ k \in LineKeys(index'[RefFile])
              /\ LineOf(index'[RefFile], k).path_type = FirstRef(k).path_type
        /\ \A i \in DOMAIN references :
              references[i].md_id
                 \in LineIds(LineOf(index'[RefFile], _parse_refs(references[i].path)))

C29_PathTypeIsFixed == [][C29_Step]_vars

\* Reached: a line of path_type 'file' that holds an ID which came with a
\* reference of path_type 'directory' to the same key.
C29_Witness ==
    \E r \in flushed :
        /\ r.path_type = "directory"
        /\ r.key \in LineKeys(index[r.file])
        /\ LineOf(index[r.file], r.key).path_type = "file"
        /\ r.md_id \in LineIds(LineOf(index[r.file], r.key))
        /\ \A q \in flushed : q.path_type = "file" => q.md_id # r.md_id

====
